---- MODULE Spec2Model ----
(***************************************************************************)
(* Oil Synth: the polyphonic voice engine (src/src/audio/synthesizer.js)   *)
(* and the loop recorder (class LoopController, src/unnamed/part_000).     *)
(*                                                                         *)
(* Units.  Time (audioContext.currentTime) is counted in ticks of 100 ms,  *)
(* so 0.1 s is 1 tick and 30 s is 300 ticks.  Sample values are counted    *)
(* in tenths, so the clip range [-1, 1] is -10..10 and the overdub gain    *)
(* 0.6 is 6/10.  Values that the code computes by division (playback       *)
(* position, playStartTime) are exact fractions <<numerator, denominator>>.*)
(***************************************************************************)
EXTENDS Integers, Sequences, FiniteSets, TLC

VARIABLES
    \* ---- Synthesizer ----
    synthInitialized,   \* Synthesizer.isInitialized
    voices,             \* Synthesizer.voices: sequence of voice objects
    maxVoices,          \* Synthesizer.maxVoices
    nextVoice,          \* identity of the next voice object createVoice returns
    params,             \* Synthesizer.params, in hundredths
    effects,            \* NoEffects or the values the effect nodes are set to reach
    \* ---- LoopController ----
    now,                \* audioContext.currentTime, in ticks
    loopInitialized,    \* LoopController.isInitialized
    isRecording,
    isPlaying,
    recordedBuffer,     \* NoBuffer or the identity of an AudioBuffer
    loopDuration,       \* in ticks
    recordStartTime,
    playStartTime,      \* fraction <<n, d>> of ticks
    overdubStartTime,
    playbackSource,     \* NoSource or [buffer |-> id]: the AudioBufferSourceNode
    mediaRecorder,      \* NoRecorder or the index of a recorder in recorders
    recorders,          \* every MediaRecorder created so far
    recordedChunks,     \* sequence of chunks; a chunk is the recorder it came from
    recordDestination,  \* NoDest or a destination node
    overdubDestination, \* NoDest or a destination node
    connected,          \* destination nodes recordingGain is connected to
    volume,             \* in tenths
    tasks,              \* processRecording / processOverdubRecording calls suspended at an await
    nextDest,           \* identity of the next MediaStreamDestination created
    \* ---- overdub mix (the loops of processOverdubRecording) ----
    mix,
    \* ---- the last operation or completion that ran (the clock and timeslice
    \* ---- chunks aside) and what it returned ----
    call

vars == <<synthInitialized, voices, maxVoices, nextVoice, params, effects,
          now, loopInitialized, isRecording, isPlaying, recordedBuffer,
          loopDuration, recordStartTime, playStartTime, overdubStartTime,
          playbackSource, mediaRecorder, recorders, recordedChunks,
          recordDestination, overdubDestination, connected, volume, tasks,
          nextDest, mix, call>>

synthVars == <<synthInitialized, voices, maxVoices, nextVoice, params, effects>>

fxVars == <<params, effects>>

loopVars == <<now, loopInitialized, isRecording, isPlaying, recordedBuffer,
              loopDuration, recordStartTime, playStartTime, overdubStartTime,
              playbackSource, mediaRecorder, recorders, recordedChunks,
              recordDestination, overdubDestination, connected, volume, tasks,
              nextDest>>

\* ---------------------------------------------------------------------------
\* Bounds of the model
\* ---------------------------------------------------------------------------
MaxVoiceObjects == 7    \* voice objects created in one behaviour

\* ---------------------------------------------------------------------------
\* Generic helpers
\* ---------------------------------------------------------------------------
Min(a, b) == IF a < b THEN a ELSE b

Max(a, b) == IF a > b THEN a ELSE b

Abs(a) == IF a < 0 THEN -a ELSE a

\* Math.ceil(n / d) for n >= 0, d > 0
CeilDiv(n, d) == (n + d - 1) \div d

\* ---------------------------------------------------------------------------
\* Synthesizer
\* ---------------------------------------------------------------------------
DefaultMaxVoices == 5

\* settings.maxVoices as getOptimalAudioSettings produces it
SettingsMaxVoices == {3, 5}

\* complexity scalars in [0,1], in tenths
Complexities == 0..10

PlayingCount(vs) == Cardinality({i \in 1..Len(vs) : vs[i].playing})

\* voices.findIndex(voice => !voice || !voice.playing): 0 stands for -1
FindFreeIndex(vs) ==
    IF \E i \in 1..Len(vs) : ~vs[i].playing
    THEN CHOOSE i \in 1..Len(vs) :
            /\ ~vs[i].playing
            /\ \A j \in 1..(i - 1) : vs[j].playing
    ELSE 0

\* stopVoice applied to the voice stored at index i of vs (no-op on a stopped voice)
StopVoiceAt(vs, i) ==
    IF i \in 1..Len(vs) /\ vs[i].playing
    THEN [vs EXCEPT ![i].playing = FALSE]
    ELSE vs

\* a stopVoice that starts the release of any voice it is handed
StopVoiceReleasesAny(vs, i) == i \in 1..Len(vs)

\* whether stopVoice starts the release ramp and schedules the oscillators' stop
StopVoiceReleases(vs, i) == i \in 1..Len(vs) /\ vs[i].playing

\* voices[voiceIndex] = voice, where voiceIndex <= voices.length (1-based: <= Len + 1)
StoreVoice(vs, i, v) ==
    IF i = Len(vs) + 1 THEN Append(vs, v) ELSE [vs EXCEPT ![i] = v]

\* the effect nodes are null until setupAudioChain creates them
NoEffects == [built |-> FALSE]

\* the values setupAudioChain gives the effect nodes: drive is the argument of
\* makeDistortionCurve, wet and dry are in hundredths, delayTime in tenths of a
\* millisecond, delayLevel, chorusLevel and reverbLevel in thousandths, feedback
\* and chorusDepth in ten-thousandths
InitialEffects ==
    [built |-> TRUE, drive |-> 50, wet |-> 30, dry |-> 70,
     delayTime |-> 2000, delayLevel |-> 300, feedback |-> 4000,
     chorusLevel |-> 500, chorusDepth |-> 50, reverbLevel |-> 200]

\* initialize(): it succeeds, or it throws before or after setupAudioChain has
\* created the effect nodes
SynthInitialize ==
    /\ ~synthInitialized
    /\ \E ok \in BOOLEAN :
          /\ synthInitialized' = ok
          /\ call' = [op |-> "initialize", ret |-> ok]
          /\ IF ok THEN effects' = InitialEffects
             ELSE \E built \in BOOLEAN :
                     effects' = IF built THEN InitialEffects ELSE effects
    /\ UNCHANGED <<voices, maxVoices, nextVoice, params, loopVars, mix>>

\* a startVoice that steals the most recent slot rather than slot 1
StartVoiceIndexLast(vs, mv) ==
    IF FindFreeIndex(vs) # 0 THEN FindFreeIndex(vs)
    ELSE IF Len(vs) < mv THEN Len(vs) + 1
    ELSE Len(vs)

ParamNames == {"grime", "flow", "shimmer", "depth", "octave"}

\* values passed to setParameter, in hundredths: below 0, 0, inside, 1, above 1
ParamInputs == {-50, 0, 40, 100, 150}

\* Math.max(0, Math.min(1, value)), in hundredths
ClampParam(value) == Max(0, Min(100, value))

\* the effect targets the switch of setParameter derives from value
DeriveEffects(fx, param, value) ==
    IF ~fx.built THEN fx
    ELSE IF param = "grime"
    THEN [fx EXCEPT !.drive = 20 + 2 * value, !.wet = value, !.dry = 100 - value]
    ELSE IF param = "flow"
    THEN [fx EXCEPT !.delayTime = 500 + 45 * value, !.delayLevel = 8 * value,
                    !.feedback = 85 * value]
    ELSE IF param = "shimmer"
    THEN [fx EXCEPT !.chorusLevel = 8 * value, !.chorusDepth = value]
    ELSE IF param = "depth"
    THEN [fx EXCEPT !.reverbLevel = 5 * value]
    ELSE fx

SetParameter ==
    /\ \E param \in ParamNames :
       \E value \in ParamInputs :
          /\ params' = [params EXCEPT ![param] = ClampParam(value)]
          /\ effects' = DeriveEffects(effects, param, value)
          /\ call' = [op |-> "setParameter", ret |-> 0, param |-> param, value |-> value]
    /\ UNCHANGED <<synthInitialized, voices, maxVoices, nextVoice, loopVars, mix>>

\* ---- positionToFrequency ----
\* x, y and the octave parameter are in hundredths; octaves are counted in half
\* octaves (6 semitones), so that the offsets -0.5 and 0.5 are integers
pentatonicIntervals == <<0, 2, 4, 7, 9>>

octaveSteps == <<0, 20, 35, 50, 65, 80, 100>>

\* octaveRanges, in half octaves
octaveRanges == <<-4, -2, -1, 0, 1, 2, 4>>

\* the loop that finds the closest octave step: the index after steps i..7, given
\* the closest index and its distance so far
RECURSIVE ClosestFrom(_, _, _, _)
ClosestFrom(octave, i, closestIndex, minDistance) ==
    IF i > Len(octaveSteps) THEN closestIndex
    ELSE LET distance == Abs(octave - octaveSteps[i])
         IN IF distance < minDistance
            THEN ClosestFrom(octave, i + 1, i, distance)
            ELSE ClosestFrom(octave, i + 1, closestIndex, minDistance)

\* a quantizer that keeps the last of several equally near steps
ClosestIndexLast(octave) ==
    CHOOSE a \in 1..Len(octaveSteps) :
        /\ \A b \in 1..Len(octaveSteps) :
              Abs(octave - octaveSteps[a]) <= Abs(octave - octaveSteps[b])
        /\ \A b \in (a + 1)..Len(octaveSteps) :
              Abs(octave - octaveSteps[a]) < Abs(octave - octaveSteps[b])

ClosestIndex(octave) == ClosestFrom(octave, 2, 1, Abs(octave - octaveSteps[1]))

\* Math.floor(x * this.pentatonicIntervals.length), 0-based
ScaleIndex(x) == (x * Len(pentatonicIntervals)) \div 100

\* Math.floor(y * 2)
OctaveBand(y) == (y * 2) \div 100

\* a scale index clamped to the valid range
ScaleIntervalClamped(scaleIndex) ==
    [defined |-> TRUE,
     value |-> pentatonicIntervals[Min(scaleIndex, Len(pentatonicIntervals) - 1) + 1]]

\* this.pentatonicIntervals[scaleIndex]: undefined outside the array
ScaleInterval(scaleIndex) ==
    IF scaleIndex + 1 \in 1..Len(pentatonicIntervals)
    THEN [defined |-> TRUE, value |-> pentatonicIntervals[scaleIndex + 1]]
    ELSE [defined |-> FALSE]

\* the result is c0Freq * 2^(semitonesFromC0 / 12), a positive number that grows
\* with semitonesFromC0, or NaN when the interval is undefined: the frequency is
\* represented by semitonesFromC0
NotANumber == [defined |-> FALSE]

positionToFrequency(x, y, octaveParam) ==
    LET octaveOffset == octaveRanges[ClosestIndex(octaveParam)]
        baseOctave == 4 + octaveOffset
        octave == 2 * OctaveBand(y) + baseOctave
        interval == ScaleInterval(ScaleIndex(x))
    IN IF interval.defined
       THEN [defined |-> TRUE, semitonesFromC0 |-> interval.value + octave * 6]
       ELSE NotANumber

\* positions and octave parameters in [0, 1], the ends included
Positions == {0, 10, 19, 20, 40, 50, 60, 79, 80, 99, 100}

OctaveParams == {0, 10, 11, 20, 27, 28, 35, 42, 43, 50, 57, 58, 65, 72, 73, 80, 90, 91, 100}

\* a call of positionToFrequency with the octave parameter as it is
PositionToFrequency ==
    /\ \E x \in Positions :
       \E y \in Positions :
          call' = [op |-> "positionToFrequency", x |-> x, y |-> y,
                   ret |-> positionToFrequency(x, y, params.octave)]
    /\ UNCHANGED <<synthVars, loopVars, mix>>

\* The slot startVoice writes: a free slot, else a new slot below maxVoices, else slot 1
StartVoiceIndex(vs, mv) ==
    IF FindFreeIndex(vs) # 0 THEN FindFreeIndex(vs)
    ELSE IF Len(vs) < mv THEN Len(vs) + 1
    ELSE 1

StartVoiceSteals(vs, mv) == FindFreeIndex(vs) = 0 /\ ~(Len(vs) < mv)

\* the positions the touch surface hands to startVoice: inside and at the far edge
VoicePositions == {0, 100}

\* createVoice assigns the frequency to the oscillators' AudioParam values, which
\* raises a TypeError for a value that is not a finite number
CreateVoiceThrows(frequency) == ~frequency.defined

\* a createVoice that feeds the new voice to the distortion alone, muting the dry path
VoiceConnectedWetOnly(fx) ==
    IF fx.built THEN [fx EXCEPT !.wet = 100, !.dry = 0] ELSE fx

\* the effect chain once createVoice has connected the voice's gain to the
\* distortion and to the dry path: its settings are as before
VoiceConnected(fx) == fx

StartVoice ==
    /\ nextVoice <= MaxVoiceObjects
    /\ \E x \in VoicePositions : \E y \in VoicePositions :
       IF ~synthInitialized
       THEN /\ call' = [op |-> "startVoice", ret |-> 0, thrown |-> FALSE]
            /\ UNCHANGED <<voices, nextVoice, effects>>
       ELSE LET idx == StartVoiceIndex(voices, maxVoices)
                stolen == StartVoiceSteals(voices, maxVoices)
                vs1 == IF stolen THEN StopVoiceAt(voices, 1) ELSE voices
                frequency == positionToFrequency(x, y, params.octave)
                voice == [id |-> nextVoice, playing |-> TRUE, silent |-> FALSE]
            IN IF CreateVoiceThrows(frequency)
               THEN /\ voices' = vs1
                    /\ UNCHANGED <<nextVoice, effects>>
                    /\ call' = [op |-> "startVoice", ret |-> 0, thrown |-> TRUE,
                                slot |-> idx, stolen |-> stolen]
               ELSE /\ voices' = StoreVoice(vs1, idx, voice)
                    /\ effects' = VoiceConnected(effects)
                    /\ nextVoice' = nextVoice + 1
                    /\ call' = [op |-> "startVoice", ret |-> nextVoice, thrown |-> FALSE,
                                slot |-> idx, stolen |-> stolen]
    /\ UNCHANGED <<synthInitialized, maxVoices, params, loopVars, mix>>

\* updateVoicePosition retargets the oscillators and the filter of a playing voice
\* and stores x, y and the frequency in it; setTargetAtTime raises a TypeError for
\* a frequency that is not a finite number. Voice 0 stands for a null handle.
\* What an oscillator is tuned to: the frequency of a semitone number times a
\* factor in hundredths. The filter cutoff is in Hz, y in hundredths.
NoTargets == [set |-> FALSE]

\* updateVoicePosition: voice.oscillators.forEach(osc => osc.frequency
\* .setTargetAtTime(frequency, ...)), then the filter to 800 + y * 4000
UpdateVoiceTargets(frequency, y) ==
    [set |-> TRUE,
     osc1 |-> <<frequency.semitonesFromC0, 100>>,
     osc2 |-> <<frequency.semitonesFromC0, 100>>,
     subOsc |-> <<frequency.semitonesFromC0, 100>>,
     filter |-> 800 + y * 40]

UpdateVoicePosition ==
    /\ \E i \in 0..Len(voices) : \E x \in VoicePositions : \E y \in VoicePositions :
          LET moved == i # 0 /\ voices[i].playing
              frequency == positionToFrequency(x, y, params.octave)
              thrown == moved /\ CreateVoiceThrows(frequency)
          IN call' = [op |-> "updateVoicePosition", ret |-> 0, voice |-> i,
                      moved |-> moved, thrown |-> thrown, x |-> x, y |-> y,
                      targets |-> IF moved /\ ~thrown
                                  THEN UpdateVoiceTargets(frequency, y)
                                  ELSE NoTargets]
    /\ UNCHANGED <<synthVars, loopVars, mix>>

StopVoice ==
    /\ \E i \in 0..Len(voices) :
          /\ voices' = StopVoiceAt(voices, i)
          /\ call' = [op |-> "stopVoice", ret |-> 0, voice |-> i,
                      released |-> StopVoiceReleases(voices, i)]
    /\ UNCHANGED <<synthInitialized, maxVoices, nextVoice, fxVars, loopVars, mix>>

\* the callback stopVoice set with setTimeout(..., 250): the release ramp is over
\* and the oscillators of the voice are stopped. (The callback of a voice that is
\* no longer stored in the pool changes nothing the pool shows.)
ReleaseTimeout ==
    /\ \E i \in 1..Len(voices) :
          /\ ~voices[i].playing
          /\ ~voices[i].silent
          /\ voices' = [voices EXCEPT ![i].silent = TRUE]
          /\ call' = [op |-> "releaseTimeout", ret |-> 0, voice |-> i]
    /\ UNCHANGED <<synthInitialized, maxVoices, nextVoice, fxVars, loopVars, mix>>

StopAllVoices ==
    /\ voices' = <<>>
    /\ call' = [op |-> "stopAllVoices", ret |-> 0]
    /\ UNCHANGED <<synthInitialized, maxVoices, nextVoice, fxVars, loopVars, mix>>

\* a setComplexity that stops the whole pool when it shrinks
StopExcessAll(vs, mv) ==
    [i \in 1..Len(vs) |-> [vs[i] EXCEPT !.playing = FALSE]]

\* excessVoices = voices.slice(maxVoices); each is stopped
StopExcess(vs, mv) ==
    [i \in 1..Len(vs) |-> IF i > mv THEN [vs[i] EXCEPT !.playing = FALSE] ELSE vs[i]]

SetComplexity ==
    /\ \E c \in Complexities :
          LET newMax == CeilDiv(5 * c, 10)
          IN /\ maxVoices' = newMax
             /\ voices' = IF newMax < maxVoices THEN StopExcess(voices, newMax) ELSE voices
             /\ call' = [op |-> "setComplexity", ret |-> newMax, c |-> c,
                         stopped |-> PlayingCount(voices) - PlayingCount(voices')]
    /\ UNCHANGED <<synthInitialized, nextVoice, fxVars, loopVars, mix>>

\* ---------------------------------------------------------------------------
\* Exact fractions <<n, d>>, d > 0, in lowest terms
\* ---------------------------------------------------------------------------
RECURSIVE GCD(_, _)
GCD(a, b) == IF b = 0 THEN a ELSE GCD(b, a % b)

Norm(n, d) == LET g == GCD(Abs(n), d) IN <<n \div g, d \div g>>

Zero == <<0, 1>>

\* the JavaScript remainder x % m of a fraction x by an integer m > 0:
\* truncated division, the result has the sign of x
JSRem(x, m) ==
    IF x[1] >= 0 THEN Norm(x[1] % (m * x[2]), x[2])
    ELSE Norm(-((-x[1]) % (m * x[2])), x[2])

RatDivInt(x, m) == Norm(x[1], x[2] * m)

RatMulInt(x, m) == Norm(x[1] * m, x[2])

IntMinusRat(t, x) == Norm(t * x[2] - x[1], x[2])

RatLess(x, y) == x[1] * y[2] < y[1] * x[2]

\* ---------------------------------------------------------------------------
\* LoopController
\* ---------------------------------------------------------------------------
MinLoopDuration == 1      \* 0.1 s

maxLoopDuration == 300    \* 30 s

DefaultVolume == 8        \* 0.8

MaxTime == 3              \* the clock stops advancing here

MaxRecordings == 2        \* recordings set up (destinations created) in one behaviour

MaxChunks == 1            \* chunks a timeslice event may pile up in recordedChunks

NoBuffer == 0

NoRecorder == 0

NoDest == 0

NoSource == [buffer |-> NoBuffer]

\* how far the clock moves in one step
TimeSteps == {1}

\* values handed to setVolume, in tenths: below and above [0, 1]
VolumeInputs == {-5, 15}

\* getPlaybackPosition() evaluated on the given fields at time t
PlaybackPosition(playing, duration, t, pst) ==
    IF ~playing \/ duration = 0 THEN Zero
    ELSE RatDivInt(JSRem(IntMinusRat(t, pst), duration), duration)

getPlaybackPosition == PlaybackPosition(isPlaying, loopDuration, now, playStartTime)

\* getState()
getState ==
    [isRecording |-> isRecording, isPlaying |-> isPlaying,
     hasLoop |-> recordedBuffer # NoBuffer, duration |-> loopDuration,
     volume |-> volume]

\* the loopDuration stopRecording commits for an elapsed time
CommitDuration(elapsed) ==
    LET d1 == IF elapsed < MinLoopDuration THEN MinLoopDuration ELSE elapsed
    IN IF d1 > maxLoopDuration THEN maxLoopDuration ELSE d1

\* a startPlaybackAtPosition that ignores the start offset in playStartTime
StartPlaybackFromStart(position, playing, buffer, duration, source, pst, t) ==
    IF buffer = NoBuffer \/ playing
    THEN [ok |-> FALSE, isPlaying |-> playing, playbackSource |-> source,
          playStartTime |-> pst]
    ELSE [ok |-> TRUE, isPlaying |-> TRUE,
          playbackSource |-> [buffer |-> buffer],
          playStartTime |-> <<t, 1>>]

\* startPlaybackAtPosition(position) on the given fields: the fields afterwards
StartPlaybackAtPosition(position, playing, buffer, duration, source, pst, t) ==
    IF buffer = NoBuffer \/ playing
    THEN [ok |-> FALSE, isPlaying |-> playing, playbackSource |-> source,
          playStartTime |-> pst]
    ELSE [ok |-> TRUE, isPlaying |-> TRUE,
          playbackSource |-> [buffer |-> buffer],
          playStartTime |-> IntMinusRat(t, RatMulInt(position, duration))]

\* a stopPlayback that leaves the loop playing
StopPlaybackKeeps(playing, source) ==
    [ok |-> FALSE, isPlaying |-> playing, playbackSource |-> source]

\* stopPlayback() on the given fields: the fields afterwards
StopPlayback(playing, source) ==
    IF ~playing \/ source = NoSource
    THEN [ok |-> FALSE, isPlaying |-> playing, playbackSource |-> source]
    ELSE [ok |-> TRUE, isPlaying |-> FALSE, playbackSource |-> NoSource]

\* The fields of the controller a failed overdub is specified to preserve.  A task
\* takes the snapshot when the recorder's stop event arrives; while it is quiet
\* nothing but the clock has changed since stopRecording returned, and the
\* stopRecording of an overdub changes isRecording only, so the snapshot is the
\* state just before stopRecording was called.
LoopSnapshot ==
    [buffer |-> recordedBuffer, duration |-> loopDuration,
     playing |-> isPlaying, pst |-> playStartTime]

NoSnapshot == [buffer |-> NoBuffer, duration |-> 0, playing |-> FALSE, pst |-> Zero]

\* an operation other than the passing of time ran: pending completions are no
\* longer the only thing that happened since their stopRecording
Disturbed(rs) == [i \in 1..Len(rs) |-> [rs[i] EXCEPT !.quiet = FALSE]]

DisturbedTasks(ts) == {[t EXCEPT !.quiet = FALSE, !.snap = NoSnapshot] : t \in ts}

\* mediaRecorder.stop() on recorder r: the recorder goes inactive and its
\* dataavailable and stop events are queued; quiet says whether the caller does
\* nothing else to the loop state
RecorderStop(rs, r, quiet) ==
    [rs EXCEPT ![r].state = "inactive", ![r].pending = TRUE, ![r].quiet = quiet]

LoopInitialize ==
    /\ ~loopInitialized
    /\ synthInitialized
    /\ \E ok \in BOOLEAN :
          /\ loopInitialized' = ok
          /\ call' = [op |-> "loopInitialize", ret |-> ok]
    /\ UNCHANGED <<synthVars, now, isRecording, isPlaying, recordedBuffer,
                   loopDuration, recordStartTime, playStartTime, overdubStartTime,
                   playbackSource, mediaRecorder, recorders, recordedChunks,
                   recordDestination, overdubDestination, connected, volume,
                   tasks, nextDest, mix>>

Advance ==
    /\ \E d \in TimeSteps :
          /\ now + d <= MaxTime
          /\ now' = now + d
    /\ UNCHANGED <<call, synthVars, loopInitialized, isRecording, isPlaying, recordedBuffer,
                   loopDuration, recordStartTime, playStartTime, overdubStartTime,
                   playbackSource, mediaRecorder, recorders, recordedChunks,
                   recordDestination, overdubDestination, connected, volume,
                   tasks, nextDest, mix>>

\* a startRecording that always overdubs
RecordingModeAlwaysOverdub(playing) == "overdub"

\* const isOverdub = this.isPlaying: which of startOverdubRecording and
\* startNewRecording startRecording calls
RecordingMode(playing) == IF playing THEN "overdub" ELSE "new"

StartRecordingUninitialized ==
    /\ ~loopInitialized
    /\ call' = [op |-> "startRecording", ret |-> FALSE]
    /\ UNCHANGED <<synthVars, loopVars, mix>>

\* a startRecording that raises isRecording before the capture is set up
StartRecordingFlagEarly(thrown, flag) == TRUE

\* isRecording after startRecording: set only once the set-up has returned
StartRecordingFlag(thrown, flag) == IF thrown = "none" THEN TRUE ELSE flag

\* startRecording on an initialized controller; thrown says whether the set-up
\* throws (the MediaRecorder constructor rejects the stream or the mime type)
StartRecording ==
    /\ loopInitialized
    /\ nextDest <= MaxRecordings
    /\ \E thrown \in {"none", "constructor"} :
          LET isOverdub == RecordingMode(isPlaying) = "overdub"
              dest == nextDest
              recorder == [kind |-> RecordingMode(isPlaying),
                           state |-> "recording",
                           pending |-> FALSE, quiet |-> FALSE]
          IN /\ nextDest' = nextDest + 1
             /\ connected' = connected \cup {dest}
             /\ recordDestination' = IF isOverdub THEN recordDestination ELSE dest
             /\ overdubDestination' = IF isOverdub THEN dest ELSE overdubDestination
             /\ recordedChunks' = <<>>
             /\ recorders' = IF thrown = "constructor" THEN Disturbed(recorders)
                             ELSE Append(Disturbed(recorders), recorder)
             /\ mediaRecorder' = IF thrown = "constructor" THEN mediaRecorder
                                 ELSE Len(recorders) + 1
             /\ overdubStartTime' = IF isOverdub /\ thrown # "constructor" THEN now
                                    ELSE overdubStartTime
             /\ isRecording' = StartRecordingFlag(thrown, isRecording)
             /\ recordStartTime' = IF thrown = "none" THEN now ELSE recordStartTime
             /\ call' = [op |-> "startRecording", ret |-> thrown = "none",
                         overdub |-> isOverdub]
    /\ tasks' = DisturbedTasks(tasks)
    /\ UNCHANGED <<synthVars, now, loopInitialized, isPlaying, recordedBuffer,
                   loopDuration, playStartTime, playbackSource, volume, mix>>

\* the body of stopRecording() after its isRecording guard: the recorders and the
\* loop duration afterwards
StopRecordingRecorders(rs, m, quiet) ==
    IF m # NoRecorder /\ rs[m].state = "recording"
    THEN RecorderStop(Disturbed(rs), m, quiet)
    ELSE Disturbed(rs)

\* a stopRecording that recomputes the loop duration whatever the recording
StopRecordingDurationAlways(buffer, duration, t, start) == CommitDuration(t - start)

StopRecordingDuration(buffer, duration, t, start) ==
    IF buffer = NoBuffer THEN CommitDuration(t - start) ELSE duration

\* a stopRecording that runs its body whether or not a recording is in progress
StopRecordingNeverRefuses(recording) == FALSE

\* if (!this.isRecording) return false
StopRecordingRefuses(recording) == ~recording

StopRecording ==
    /\ IF StopRecordingRefuses(isRecording)
       THEN /\ call' = [op |-> "stopRecording", ret |-> FALSE]
            /\ recorders' = Disturbed(recorders)
            /\ UNCHANGED <<isRecording, loopDuration>>
       ELSE /\ isRecording' = FALSE
            /\ recorders' = StopRecordingRecorders(recorders, mediaRecorder, TRUE)
            /\ loopDuration' = StopRecordingDuration(recordedBuffer, loopDuration,
                                                     now, recordStartTime)
            /\ call' = [op |-> "stopRecording", ret |-> TRUE,
                        kind |-> IF mediaRecorder = NoRecorder THEN "none"
                                 ELSE recorders[mediaRecorder].kind]
    /\ tasks' = DisturbedTasks(tasks)
    /\ UNCHANGED <<synthVars, now, loopInitialized, isPlaying, recordedBuffer,
                   recordStartTime, playStartTime, overdubStartTime, playbackSource,
                   mediaRecorder, recordedChunks, recordDestination,
                   overdubDestination, connected, volume, nextDest, mix>>

\* a timeslice dataavailable event of a recorder started with start(100)
ChunkAvailable ==
    /\ \E r \in 1..Len(recorders) :
          /\ recorders[r].state = "recording"
          /\ recorders[r].kind = "new"
          /\ Len(recordedChunks) < MaxChunks
          /\ recordedChunks' = Append(recordedChunks, r)
    /\ UNCHANGED <<call, synthVars, now, loopInitialized, isRecording, isPlaying,
                   recordedBuffer, loopDuration, recordStartTime, playStartTime,
                   overdubStartTime, playbackSource, mediaRecorder, recorders,
                   recordDestination, overdubDestination, connected, volume,
                   tasks, nextDest, mix>>

\* The task a stopped recorder r queued: its last dataavailable event (with data or
\* empty), then its stop event, whose handler runs processRecording or
\* processOverdubRecording up to the first await.
NewTask(r) ==
    [kind |-> "new", rec |-> r, position |-> Zero,
     originalBuffer |-> NoBuffer, snap |-> NoSnapshot,
     quiet |-> recorders[r].quiet]

OverdubTask(r) ==
    [kind |-> "overdub", rec |-> r, position |-> getPlaybackPosition,
     originalBuffer |-> recordedBuffer,
     snap |-> IF recorders[r].quiet THEN LoopSnapshot ELSE NoSnapshot,
     quiet |-> recorders[r].quiet]

\* the events of the recorders and the tasks they start
EventOps == {"recorderStopped", "processRecording", "processOverdub"}

\* the last control operation called was clear(): only events have run since
SinceClear ==
    IF call.op = "clear" THEN TRUE
    ELSE IF call.op \in EventOps THEN call.cleared
    ELSE FALSE

RecorderStopped ==
    /\ \E r \in 1..Len(recorders) :
          /\ recorders[r].pending
          /\ \E hasData \in BOOLEAN :
                LET chunks == IF hasData THEN Append(recordedChunks, r)
                              ELSE recordedChunks
                    others == [i \in 1..Len(recorders) |->
                                 IF i = r THEN [recorders[i] EXCEPT !.pending = FALSE]
                                 ELSE [recorders[i] EXCEPT !.quiet = FALSE]]
                    stopped == StopPlayback(isPlaying, playbackSource)
                IN /\ recordedChunks' = chunks
                   /\ recorders' = others
                   /\ IF Len(chunks) = 0
                      THEN /\ tasks' = DisturbedTasks(tasks)
                           /\ UNCHANGED <<isPlaying, playbackSource>>
                           /\ call' = [op |-> "recorderStopped", ret |-> FALSE, cleared |-> SinceClear]
                      ELSE IF recorders[r].kind = "new"
                      THEN /\ tasks' = DisturbedTasks(tasks) \cup {NewTask(r)}
                           /\ UNCHANGED <<isPlaying, playbackSource>>
                           /\ call' = [op |-> "recorderStopped", ret |-> TRUE, cleared |-> SinceClear]
                      ELSE /\ tasks' = DisturbedTasks(tasks) \cup {OverdubTask(r)}
                           /\ isPlaying' = stopped.isPlaying
                           /\ playbackSource' = stopped.playbackSource
                           /\ call' = [op |-> "recorderStopped", ret |-> TRUE, cleared |-> SinceClear]
    /\ UNCHANGED <<synthVars, now, loopInitialized, isRecording, recordedBuffer,
                   loopDuration, recordStartTime, playStartTime, overdubStartTime,
                   mediaRecorder, recordDestination, overdubDestination, connected,
                   volume, nextDest, mix>>

\* the AudioBuffer a task creates (decodeAudioData's result, or createBuffer's mixed
\* buffer): a new object, named after the recorder whose stop event started the task
NewBuffer(t) == t.rec

\* processRecording resumes after decodeAudioData: the decode succeeded or was rejected
ProcessRecordingDone ==
    /\ \E t \in tasks :
          /\ t.kind = "new"
          /\ tasks' = DisturbedTasks(tasks \ {t})
          /\ \E decoded \in BOOLEAN :
                IF decoded
                THEN LET decodedBuffer == NewBuffer(t)
                         started == StartPlaybackAtPosition(Zero, isPlaying, decodedBuffer,
                                        loopDuration, playbackSource, playStartTime, now)
                     IN /\ recordedBuffer' = decodedBuffer
                        /\ isPlaying' = started.isPlaying
                        /\ playbackSource' = started.playbackSource
                        /\ playStartTime' = started.playStartTime
                        /\ call' = [op |-> "processRecording", ret |-> "decoded",
                                    task |-> t, started |-> started.ok,
                                    cleared |-> SinceClear]
                ELSE /\ call' = [op |-> "processRecording", ret |-> "failed", task |-> t, cleared |-> SinceClear]
                     /\ UNCHANGED <<recordedBuffer, isPlaying,
                                    playbackSource, playStartTime>>
    /\ recorders' = Disturbed(recorders)
    /\ UNCHANGED <<synthVars, now, loopInitialized, isRecording, loopDuration,
                   recordStartTime, overdubStartTime, mediaRecorder, recordedChunks,
                   recordDestination, overdubDestination, connected, volume,
                   nextDest, mix>>

\* what processOverdubRecording does once decodeAudioData has settled:
\* "failed"  decodeAudioData was rejected
\* "threw"   the mix threw (originalBuffer is null, or createBuffer of 0 samples)
\* "mixed"   the mixed buffer replaced recordedBuffer
OverdubOutcome(decoded, original, duration) ==
    IF ~decoded THEN "failed"
    ELSE IF original = NoBuffer \/ duration = 0 THEN "threw"
    ELSE "mixed"

\* (this.overdubStartTime - this.playStartTime) % this.loopDuration
OverdubStartInLoop(ost, pst, duration) == JSRem(IntMinusRat(ost, pst), duration)

ProcessOverdubDone ==
    /\ \E t \in tasks :
          /\ t.kind = "overdub"
          /\ tasks' = DisturbedTasks(tasks \ {t})
          /\ \E decoded \in BOOLEAN :
                LET outcome == OverdubOutcome(decoded, t.originalBuffer, loopDuration)
                    mixedBuffer == NewBuffer(t)
                    started == StartPlaybackAtPosition(t.position, isPlaying, mixedBuffer,
                                   loopDuration, playbackSource, playStartTime, now)
                IN IF outcome = "mixed"
                   THEN /\ recordedBuffer' = mixedBuffer
                        /\ isPlaying' = started.isPlaying
                        /\ playbackSource' = started.playbackSource
                        /\ playStartTime' = started.playStartTime
                        /\ call' = [op |-> "processOverdub", ret |-> outcome,
                                    task |-> t, started |-> started.ok,
                                    cleared |-> SinceClear,
                                    duration |-> loopDuration,
                                    overdubStartInLoop |->
                                        OverdubStartInLoop(overdubStartTime,
                                                           playStartTime, loopDuration)]
                   ELSE /\ call' = [op |-> "processOverdub", ret |-> outcome, task |-> t, cleared |-> SinceClear]
                        /\ UNCHANGED <<recordedBuffer, isPlaying,
                                       playbackSource, playStartTime>>
    /\ recorders' = Disturbed(recorders)
    /\ UNCHANGED <<synthVars, now, loopInitialized, isRecording, loopDuration,
                   recordStartTime, overdubStartTime, mediaRecorder, recordedChunks,
                   recordDestination, overdubDestination, connected, volume,
                   nextDest, mix>>

TogglePlayback ==
    /\ LET stopped == StopPlayback(isPlaying, playbackSource)
           started == StartPlaybackAtPosition(Zero, isPlaying, recordedBuffer,
                          loopDuration, playbackSource, playStartTime, now)
       IN IF isPlaying
          THEN /\ isPlaying' = stopped.isPlaying
               /\ playbackSource' = stopped.playbackSource
               /\ UNCHANGED playStartTime
               /\ call' = [op |-> "togglePlayback", ret |-> stopped.ok]
          ELSE IF recordedBuffer # NoBuffer
          THEN /\ isPlaying' = started.isPlaying
               /\ playbackSource' = started.playbackSource
               /\ playStartTime' = started.playStartTime
               /\ call' = [op |-> "togglePlayback", ret |-> started.ok]
          ELSE /\ UNCHANGED <<isPlaying, playbackSource, playStartTime>>
               /\ call' = [op |-> "togglePlayback", ret |-> FALSE]
    /\ recorders' = Disturbed(recorders)
    /\ tasks' = DisturbedTasks(tasks)
    /\ UNCHANGED <<synthVars, now, loopInitialized, isRecording, recordedBuffer,
                   loopDuration, recordStartTime, overdubStartTime, mediaRecorder,
                   recordedChunks, recordDestination, overdubDestination, connected,
                   volume, nextDest, mix>>

SetVolume ==
    /\ \E v \in VolumeInputs :
          volume' = Max(0, Min(10, v))
    /\ call' = [op |-> "setVolume", ret |-> 0]
    /\ UNCHANGED <<synthVars, now, loopInitialized, isRecording, isPlaying,
                   recordedBuffer, loopDuration, recordStartTime, playStartTime,
                   overdubStartTime, playbackSource, mediaRecorder, recorders,
                   recordedChunks, recordDestination, overdubDestination, connected,
                   tasks, nextDest, mix>>

\* clear(): stopRecording() if recording, stopPlayback() if playing, then the reset
\* a clear() that reports whether there was anything to clear
ClearResultIfAny(recording, playing, buffer) ==
    recording \/ playing \/ buffer # NoBuffer

\* return true, at the end of clear()
ClearResult(recording, playing, buffer) == TRUE

Clear ==
    /\ LET rs1 == IF isRecording
                  THEN StopRecordingRecorders(recorders, mediaRecorder, FALSE)
                  ELSE Disturbed(recorders)
           stopped == IF isPlaying THEN StopPlayback(isPlaying, playbackSource)
                      ELSE [ok |-> FALSE, isPlaying |-> isPlaying,
                            playbackSource |-> playbackSource]
           \* the second mediaRecorder.stop() of clear, if it is still recording
           rs2 == IF mediaRecorder # NoRecorder /\ rs1[mediaRecorder].state = "recording"
                  THEN RecorderStop(rs1, mediaRecorder, FALSE)
                  ELSE rs1
       IN /\ isRecording' = FALSE
          /\ isPlaying' = stopped.isPlaying
          /\ playbackSource' = stopped.playbackSource
          /\ recorders' = rs2
    /\ recordedBuffer' = NoBuffer
    /\ loopDuration' = 0
    /\ recordedChunks' = <<>>
    /\ mediaRecorder' = NoRecorder
    /\ connected' = connected \ {recordDestination, overdubDestination}
    /\ recordDestination' = NoDest
    /\ overdubDestination' = NoDest
    /\ tasks' = DisturbedTasks(tasks)
    /\ call' = [op |-> "clear",
                ret |-> ClearResult(isRecording, isPlaying, recordedBuffer),
                was |-> [isRecording |-> isRecording, isPlaying |-> isPlaying,
                         hasLoop |-> recordedBuffer # NoBuffer],
                again |-> call.op = "clear" /\ recordedChunks = <<>>]
    /\ UNCHANGED <<synthVars, now, loopInitialized, recordStartTime, playStartTime,
                   overdubStartTime, volume, nextDest, mix>>

\* ---------------------------------------------------------------------------
\* The overdub mix of processOverdubRecording, on sample arrays
\* ---------------------------------------------------------------------------
MaxLoopSamples == 3     \* targetSamples of the loops that are mixed

ClipLimit == 10         \* the hard clip at 1.0, in tenths

OverdubGain == 6        \* the overdub gain 0.6, in tenths

\* sample values of an existing loop: any value in [-1, 1]
LoopValues == {-10, 0, 7}

\* sample values of a decoded overdub clip, multiples of 0.5 so that 0.6 * v is a
\* whole number of tenths; 2.0 is a decoded sample beyond full scale
OverdubValues == {-20, -10, 0, 5, 10}

\* Math.max(-1, Math.min(1, x))
\* a mix without the hard clip
ClampNone(x) == x

Clamp(x) == Max(-ClipLimit, Min(ClipLimit, x))

\* overdubData[i] * 0.6
OverdubSample(v) == (v * OverdubGain) \div 10

\* the JavaScript remainder a % n of integers, n > 0
JSRemInt(a, n) == IF a >= 0 THEN a % n ELSE -((-a) % n)

\* mixedData after the first loop: the original channel copied over a zeroed
\* channel of targetSamples samples (no original channel: it stays zero)
CopyOriginal(originalData, hasOriginal, targetSamples) ==
    [j \in 1..targetSamples |->
        IF hasOriginal /\ j <= Min(Len(originalData), targetSamples)
        THEN originalData[j] ELSE 0]

\* one pass of the second loop, for overdub sample i (0-based): the write to
\* mixedData[targetIndex]; a write outside the array is ignored
\* a mix that overwrites the loop with the overdub instead of adding to it
MixOneOverwrite(mixedData, overdubData, i, overdubStartSample, targetSamples) ==
    LET targetIndex == JSRemInt(overdubStartSample + i, targetSamples)
    IN IF targetIndex < 0 THEN mixedData
       ELSE [mixedData EXCEPT ![targetIndex + 1] =
                Clamp(OverdubSample(overdubData[i + 1]))]

MixOne(mixedData, overdubData, i, overdubStartSample, targetSamples) ==
    LET targetIndex == JSRemInt(overdubStartSample + i, targetSamples)
    IN IF targetIndex < 0 THEN mixedData
       ELSE [mixedData EXCEPT ![targetIndex + 1] =
                Clamp(mixedData[targetIndex + 1] + OverdubSample(overdubData[i + 1]))]

\* the second loop from overdub sample i on
RECURSIVE MixFrom(_, _, _, _, _)
MixFrom(mixedData, overdubData, i, overdubStartSample, targetSamples) ==
    IF i >= Len(overdubData) THEN mixedData
    ELSE MixFrom(MixOne(mixedData, overdubData, i, overdubStartSample, targetSamples),
                 overdubData, i + 1, overdubStartSample, targetSamples)

\* one channel of mixedBuffer
MixChannel(original, overdub, channel, overdubStartSample, targetSamples) ==
    LET copied == CopyOriginal(IF channel <= Len(original) THEN original[channel] ELSE <<>>,
                               channel <= Len(original), targetSamples)
    IN IF channel <= Len(overdub)
       THEN MixFrom(copied, overdub[channel], 0, overdubStartSample, targetSamples)
       ELSE copied

\* mixedBuffer: max(channels) channels of targetSamples samples
MixBuffers(original, overdub, overdubStartSample, targetSamples) ==
    [channel \in 1..Max(Len(original), Len(overdub)) |->
        MixChannel(original, overdub, channel, overdubStartSample, targetSamples)]

\* a clip of the given length: constant v, or v alternating with silence
Clip(len, v, alternating) ==
    [i \in 1..len |-> IF alternating /\ i % 2 = 0 THEN 0 ELSE v]

\* channel c of a buffer whose first channel is data: the second channel carries
\* the inverted signal
Channels(data, n) ==
    [c \in 1..n |-> IF c = 1 THEN data ELSE [j \in 1..Len(data) |-> -data[j]]]

NoMix == [pc |-> "idle"]

\* the decoded buffers a mix is handed: a loop of about targetSamples samples, an
\* overdub clip of up to two loop lengths, and the sample the overdub started at
MixLoad ==
    /\ mix.pc = "idle"
    /\ \E targetSamples \in 1..MaxLoopSamples :
       \E len \in (targetSamples - 1)..(targetSamples + 1) :
       \E data \in [1..len -> LoopValues] :
       \E clipLen \in 0..(2 * targetSamples) :
       \E v \in OverdubValues :
       \E alternating \in BOOLEAN :
       \E oc \in 1..2 :
       \E vc \in 1..2 :
       \E start \in 0..(targetSamples - 1) :
          mix' = [pc |-> "loaded",
                  recordedBuffer |-> Channels(data, oc),
                  originalBuffer |-> Channels(data, oc),
                  overdubBuffer |-> Channels(Clip(clipLen, v, alternating), vc),
                  overdubStartSample |-> start,
                  targetSamples |-> targetSamples]
    /\ call' = [op |-> "mixLoad", ret |-> 0]
    /\ UNCHANGED <<synthVars, loopVars>>

MixRun ==
    /\ mix.pc = "loaded"
    /\ mix' = [mix EXCEPT !.pc = "mixed",
                          !.recordedBuffer = MixBuffers(mix.originalBuffer, mix.overdubBuffer,
                                                mix.overdubStartSample, mix.targetSamples)]
    /\ call' = [op |-> "mixRun", ret |-> 0]
    /\ UNCHANGED <<synthVars, loopVars>>

\* the mixed buffer is dropped and the next pair of buffers can be mixed
MixReset ==
    /\ mix.pc = "mixed"
    /\ mix' = NoMix
    /\ call' = [op |-> "mixReset", ret |-> 0]
    /\ UNCHANGED <<synthVars, loopVars>>

\* ---------------------------------------------------------------------------
\* The mix of processOverdubRecording sample by sample, as the audio thread that
\* plays recordedBuffer can observe it: the loops write into mixedBuffer, a buffer
\* of their own, and recordedBuffer is assigned after them
\* ---------------------------------------------------------------------------
SwapLoopValues == {0, 7}

SwapOverdubValues == {-20, 10}

\* a buffer written in place would be visible to playback as it is being mixed
VisibleBufferInPlace(pc, prior, mixedBuffer) == mixedBuffer

\* recordedBuffer after a step of the mix that leaves the mix at pc
VisibleBuffer(pc, prior, mixedBuffer) ==
    IF pc = "committed" THEN mixedBuffer ELSE prior

\* createBuffer: numberOfChannels channels of targetSamples zeros
CreateBuffer(numberOfChannels, targetSamples) ==
    [c \in 1..numberOfChannels |-> [j \in 1..targetSamples |-> 0]]

\* the decode has succeeded: originalBuffer, overdubBuffer, targetSamples and
\* overdubStartSample are known and mixedBuffer is created
SwapLoad ==
    /\ mix.pc = "idle"
    /\ \E targetSamples \in 1..MaxLoopSamples :
       \E data \in [1..targetSamples -> SwapLoopValues] :
       \E clipLen \in 0..(2 * targetSamples) :
       \E v \in SwapOverdubValues :
       \E oc \in 1..2 :
       \E vc \in 1..2 :
       \E start \in 0..(targetSamples - 1) :
          mix' = [pc |-> "mixing",
                  recordedBuffer |-> Channels(data, oc),
                  originalBuffer |-> Channels(data, oc),
                  overdubBuffer |-> Channels(Clip(clipLen, v, FALSE), vc),
                  overdubStartSample |-> start,
                  targetSamples |-> targetSamples,
                  mixedBuffer |-> CreateBuffer(Max(oc, vc), targetSamples),
                  channel |-> 1,
                  phase |-> "copy",
                  i |-> 0]
    /\ call' = [op |-> "swapLoad", ret |-> 0]
    /\ UNCHANGED <<synthVars, loopVars>>

\* the mix moves on to mixedBuffer at pc; recordedBuffer follows VisibleBuffer
SwapTo(pc, mixedBuffer, channel, phase, i) ==
    mix' = [mix EXCEPT !.pc = pc,
                       !.mixedBuffer = mixedBuffer,
                       !.channel = channel,
                       !.phase = phase,
                       !.i = i,
                       !.recordedBuffer = VisibleBuffer(pc, mix.recordedBuffer, mixedBuffer)]

\* "First, copy the entire original loop" into the current channel
SwapCopy ==
    /\ mix.pc = "mixing"
    /\ mix.phase = "copy"
    /\ LET c == mix.channel
           copied == CopyOriginal(IF c <= Len(mix.originalBuffer)
                                  THEN mix.originalBuffer[c] ELSE <<>>,
                                  c <= Len(mix.originalBuffer), mix.targetSamples)
       IN SwapTo("mixing", [mix.mixedBuffer EXCEPT ![c] = copied], c, "layer", 0)
    /\ call' = [op |-> "swapCopy", ret |-> 0]
    /\ UNCHANGED <<synthVars, loopVars>>

\* one iteration of the loop over overdubData
SwapLayer ==
    /\ mix.pc = "mixing"
    /\ mix.phase = "layer"
    /\ mix.channel <= Len(mix.overdubBuffer)
    /\ mix.i < Len(mix.overdubBuffer[mix.channel])
    /\ LET c == mix.channel
           layered == MixOne(mix.mixedBuffer[c], mix.overdubBuffer[c], mix.i,
                             mix.overdubStartSample, mix.targetSamples)
       IN SwapTo("mixing", [mix.mixedBuffer EXCEPT ![c] = layered], c, "layer", mix.i + 1)
    /\ call' = [op |-> "swapLayer", ret |-> 0]
    /\ UNCHANGED <<synthVars, loopVars>>

\* the current channel has no overdub sample left
ChannelDone ==
    /\ mix.pc = "mixing"
    /\ mix.phase = "layer"
    /\ IF mix.channel > Len(mix.overdubBuffer) THEN TRUE
       ELSE mix.i >= Len(mix.overdubBuffer[mix.channel])

\* channel++ of the loop over the channels of mixedBuffer
SwapNextChannel ==
    /\ ChannelDone
    /\ mix.channel < Len(mix.mixedBuffer)
    /\ SwapTo("mixing", mix.mixedBuffer, mix.channel + 1, "copy", 0)
    /\ call' = [op |-> "swapNextChannel", ret |-> 0]
    /\ UNCHANGED <<synthVars, loopVars>>

\* this.recordedBuffer = mixedBuffer, after the last channel
SwapCommit ==
    /\ ChannelDone
    /\ mix.channel = Len(mix.mixedBuffer)
    /\ SwapTo("committed", mix.mixedBuffer, mix.channel, "done", mix.i)
    /\ call' = [op |-> "swapCommit", ret |-> 0]
    /\ UNCHANGED <<synthVars, loopVars>>

\* the mix throws and the catch block logs the error
SwapFail ==
    /\ mix.pc = "mixing"
    /\ SwapTo("failed", mix.mixedBuffer, mix.channel, "done", mix.i)
    /\ call' = [op |-> "swapFail", ret |-> 0]
    /\ UNCHANGED <<synthVars, loopVars>>

SwapReset ==
    /\ mix.pc \in {"committed", "failed"}
    /\ mix' = NoMix
    /\ call' = [op |-> "swapReset", ret |-> 0]
    /\ UNCHANGED <<synthVars, loopVars>>

\* ---------------------------------------------------------------------------
\* The audio graph: the connections the code has made between audio nodes
\* ---------------------------------------------------------------------------
Node(name) == [node |-> name, id |-> 0]

\* the MediaStreamAudioDestinationNode numbered d
StreamDestination(d) == [node |-> "mediaStreamDestination", id |-> d]

Edge(from, to) == <<Node(from), Node(to)>>

\* Synthesizer.setupAudioChain and createVoice
SynthChainEdges ==
    {Edge("voiceGain", "distortion"), Edge("voiceGain", "distortionDry"),
     Edge("chorusLFO", "chorusDepth"), Edge("chorusDepth", "chorusDelay"),
     Edge("delay", "delayFeedback"), Edge("delayFeedback", "delay"),
     Edge("distortion", "distortionWet"), Edge("distortionWet", "distortionOutput"),
     Edge("distortionDry", "distortionOutput"),
     Edge("distortionOutput", "delay"), Edge("distortionOutput", "chorusDelay"),
     Edge("delay", "delayGain"), Edge("chorusDelay", "chorusGain"),
     Edge("delayGain", "reverb"), Edge("chorusGain", "reverb"),
     Edge("distortionOutput", "reverb"),
     Edge("reverb", "reverbGain"), Edge("reverbGain", "masterGain"),
     Edge("distortionOutput", "masterGain"),
     Edge("masterGain", "destination")}

\* a loop controller whose output gain feeds the synthesizer's master gain
LoopChainEdgesThroughMaster ==
    {Edge("outputGain", "masterGain"), Edge("masterGain", "recordingGain")}

\* LoopController.setupAudioChain
LoopChainEdges ==
    {Edge("outputGain", "destination"), Edge("masterGain", "recordingGain")}

\* recordingGain.connect(recordDestination / overdubDestination), until clear()
\* disconnects them
RecordingEdges == {<<Node("recordingGain"), StreamDestination(d)>> : d \in connected}

\* playbackSource.connect(outputGain)
PlaybackEdges ==
    IF playbackSource = NoSource THEN {} ELSE {Edge("playbackSource", "outputGain")}

AudioGraph ==
    (IF effects.built THEN SynthChainEdges ELSE {})
    \cup (IF loopInitialized THEN LoopChainEdges ELSE {})
    \cup RecordingEdges
    \cup PlaybackEdges

Successors(nodes, graph) == {e[2] : e \in {f \in graph : f[1] \in nodes}}

RECURSIVE ReachableFrom(_, _)
\* the nodes a signal leaving one of the given nodes arrives at
ReachableFrom(nodes, graph) ==
    IF Successors(nodes, graph) \subseteq nodes THEN nodes
    ELSE ReachableFrom(nodes \cup Successors(nodes, graph), graph)

\* ---------------------------------------------------------------------------
\* Specifications
\* ---------------------------------------------------------------------------
\* new Synthesizer(settings)
ConstructSynthesizer(settingsMaxVoices) ==
    /\ synthInitialized = FALSE
    /\ voices = <<>>
    /\ maxVoices = settingsMaxVoices
    /\ nextVoice = 1
    /\ params = [grime |-> 30, flow |-> 20, shimmer |-> 15, depth |-> 25, octave |-> 45]
    /\ effects = NoEffects

\* new LoopController(synthesizer)
ConstructLoopController ==
    /\ now = 0
    /\ loopInitialized = FALSE
    /\ isRecording = FALSE
    /\ isPlaying = FALSE
    /\ recordedBuffer = NoBuffer
    /\ loopDuration = 0
    /\ recordStartTime = 0
    /\ playStartTime = Zero
    /\ overdubStartTime = 0
    /\ playbackSource = NoSource
    /\ mediaRecorder = NoRecorder
    /\ recorders = <<>>
    /\ recordedChunks = <<>>
    /\ recordDestination = NoDest
    /\ overdubDestination = NoDest
    /\ connected = {}
    /\ volume = DefaultVolume
    /\ tasks = {}
    /\ nextDest = 1

Init ==
    /\ ConstructSynthesizer(DefaultMaxVoices)
    /\ ConstructLoopController
    /\ mix = NoMix
    /\ call = [op |-> "construct", ret |-> 0]

InitSynth ==
    /\ \E mv \in SettingsMaxVoices : ConstructSynthesizer(mv)
    /\ ConstructLoopController
    /\ mix = NoMix
    /\ call = [op |-> "construct", ret |-> 0]

NextSynth ==
    \/ SynthInitialize
    \/ StartVoice
    \/ StopVoice
    \/ StopAllVoices
    \/ SetComplexity

NextLoop ==
    \/ SynthInitialize
    \/ LoopInitialize
    \/ Advance
    \/ StartRecordingUninitialized
    \/ StartRecording
    \/ StopRecording
    \/ ChunkAvailable
    \/ RecorderStopped
    \/ ProcessRecordingDone
    \/ ProcessOverdubDone
    \/ TogglePlayback
    \/ SetVolume
    \/ Clear

NextMix ==
    \/ MixLoad
    \/ MixRun
    \/ MixReset

SpecSynth == InitSynth /\ [][NextSynth]_vars

SpecLoop == Init /\ [][NextLoop]_vars

SpecMix == Init /\ [][NextMix]_vars

\* a synthesizer whose octave parameter has been set
InitPitch ==
    /\ \E octave \in OctaveParams :
          /\ synthInitialized = FALSE
          /\ voices = <<>>
          /\ maxVoices = DefaultMaxVoices
          /\ nextVoice = 1
          /\ params = [grime |-> 30, flow |-> 20, shimmer |-> 15, depth |-> 25,
                       octave |-> octave]
          /\ effects = NoEffects
    /\ ConstructLoopController
    /\ mix = NoMix
    /\ call = [op |-> "setParameter", ret |-> 0, param |-> "octave", value |-> params.octave]

NextPitch == PositionToFrequency

SpecPitch == InitPitch /\ [][NextPitch]_vars

\* the voice operations together with setParameter, on a pool of few voices and
\* with few parameters moved away from their defaults
FrameVoiceObjects == 2

MaxChangedParams == 1

DefaultParams == [grime |-> 30, flow |-> 20, shimmer |-> 15, depth |-> 25, octave |-> 45]

ChangedParams(ps) == {p \in DOMAIN ps : ps[p] # DefaultParams[p]}

NextFrame ==
    \/ SynthInitialize
    \/ (nextVoice <= FrameVoiceObjects /\ StartVoice)
    \/ UpdateVoicePosition
    \/ StopVoice
    \/ StopAllVoices
    \/ SetComplexity
    \/ (SetParameter /\ Cardinality(ChangedParams(params')) <= MaxChangedParams)

SpecFrame == Init /\ [][NextFrame]_vars

\* the voice operations and the release timers, on a pool of few voices
NextRelease ==
    \/ SynthInitialize
    \/ (nextVoice <= FrameVoiceObjects + 1 /\ StartVoice)
    \/ StopVoice
    \/ ReleaseTimeout
    \/ StopAllVoices
    \/ SetComplexity

SpecRelease == Init /\ [][NextRelease]_vars

NextParams ==
    \/ SynthInitialize
    \/ SetParameter

SpecParams == Init /\ [][NextParams]_vars

NextSwap ==
    \/ SwapLoad
    \/ SwapCopy
    \/ SwapLayer
    \/ SwapNextChannel
    \/ SwapCommit
    \/ SwapFail
    \/ SwapReset

SpecSwap == Init /\ [][NextSwap]_vars

\* ---------------------------------------------------------------------------
\* Claims about the voice pool (SpecSynth)
\* ---------------------------------------------------------------------------

\* C1: on an initialized synthesizer the number of voices with playing = true
\* never exceeds the configured maxVoices, whatever sequence of startVoice,
\* stopVoice, stopAllVoices and setComplexity led to the state.
C1_PlayingWithinMax ==
    synthInitialized => PlayingCount(voices) <= maxVoices

\* a step of startVoice on an initialized synthesizer
IsStartVoice == nextVoice' = nextVoice + 1

PoolFullAndPlaying ==
    /\ Len(voices) = maxVoices
    /\ \A i \in 1..Len(voices) : voices[i].playing

PlayingIds(vs) == {vs[i].id : i \in {j \in 1..Len(vs) : vs[j].playing}}

\* what C2 says of a startVoice on a full pool of playing voices: slot 0 (here
\* index 1) is the one voice silenced and replaced, the rest is untouched
StealsSlotZero ==
    /\ Len(voices') = Len(voices)
    /\ voices'[1].id = nextVoice
    /\ voices'[1].playing
    /\ \A i \in 2..Len(voices) : voices'[i] = voices[i]
    /\ PlayingIds(voices) \ PlayingIds(voices') = {voices[1].id}
    /\ PlayingCount(voices') = maxVoices

C3_ClearResets ==
    call.op = "clear" =>
        /\ call.ret = TRUE
        /\ getState.isRecording = FALSE
        /\ getState.isPlaying = FALSE
        /\ getState.hasLoop = FALSE
        /\ getState.duration = 0

\* clear() was called in the middle of an overdub: recording, playing, loop held
C3_Witness ==
    /\ call.op = "clear"
    /\ call.was.isRecording
    /\ call.was.isPlaying
    /\ call.was.hasLoop

\* C4: every stopRecording that ends a New-recording (one started while the loop
\* was not playing, with or without a paused loop buffer) sets loopDuration to
\* the elapsed time since its startRecording clamped to [0.1 s, maxLoopDuration].
C4_NewRecordingCommitsDuration ==
    [][(/\ isRecording
        /\ call'.op = "stopRecording"
        /\ call'.ret = TRUE
        /\ call'.kind = "new")
       => loopDuration' = Max(MinLoopDuration,
                              Min(maxLoopDuration, now - recordStartTime))]_vars

\* C5: when the decode or the mix of an overdub fails, and nothing else has run
\* since its stopRecording, the loop is as it was just before that stopRecording:
\* same recordedBuffer, same loopDuration, and still playing.
C5_FailedOverdubPreservesLoop ==
    (/\ call.op = "processOverdub"
     /\ call.ret \in {"failed", "threw"}
     /\ call.task.quiet)
    => /\ recordedBuffer = call.task.snap.buffer
       /\ loopDuration = call.task.snap.duration
       /\ isPlaying = call.task.snap.playing

\* ---------------------------------------------------------------------------
\* Claims about the overdub mix (SpecMix)
\* ---------------------------------------------------------------------------

\* clamp(-1, 1, x) in tenths, as the claims write it
ClampUnit(x) == IF x > 10 THEN 10 ELSE IF x < -10 THEN -10 ELSE x

\* 0.6 * v in tenths (overdub samples are multiples of 0.5)
Scaled(v) == (3 * v) \div 5

\* the loop and the clip of channel c: an absent loop channel is silence, an
\* absent clip channel is empty
LoopChannel(c) ==
    IF c <= Len(mix.originalBuffer) THEN mix.originalBuffer[c]
    ELSE [j \in 1..mix.targetSamples |-> 0]

ClipChannel(c) ==
    IF c <= Len(mix.overdubBuffer) THEN mix.overdubBuffer[c] ELSE <<>>

\* the overdub samples i, i + N, i + 2N, ... layered in that order onto acc
RECURSIVE LayerAt(_, _, _, _)
LayerAt(acc, O, i, N) ==
    IF i >= Len(O) THEN acc
    ELSE LayerAt(ClampUnit(acc + Scaled(O[i + 1])), O, i + N, N)

\* R of the claim, position by position: position j receives the overdub samples
\* whose index is j - s modulo N, in increasing order
ExpectedMix(L, O, s, N) ==
    [j \in 1..N |-> LayerAt(L[j], O, ((j - 1) - s) % N, N)]

IsZero(L) == \A j \in 1..Len(L) : L[j] = 0

IsConstant(O) == \A i \in 1..Len(O) : O[i] = O[1]

Mixed == mix.pc = "mixed" /\ Len(mix.originalBuffer[1]) = mix.targetSamples

TwoCycleClip(c) ==
    /\ Mixed
    /\ c <= Len(mix.overdubBuffer)
    /\ IsZero(LoopChannel(c))
    /\ IsConstant(ClipChannel(c))
    /\ Len(ClipChannel(c)) = 2 * mix.targetSamples

IsOverdubCommit ==
    /\ call'.op = "processOverdub"
    /\ call'.task \in tasks
    /\ call'.ret = "mixed"
    /\ call'.started

\* C8 as stated: when the mix of an overdub is committed (nothing but time having
\* passed since its stopRecording), the position at the moment of resumption is
\* ((now - playStartTime as it was before the overdub was stopped) mod
\* loopDuration) / loopDuration, however long decode and mix took.
C8_ResumeAsIfNeverStopped ==
    [][(IsOverdubCommit /\ call'.task.quiet /\ call'.task.snap.playing)
       => getPlaybackPosition' =
             PlaybackPosition(TRUE, loopDuration', now', call'.task.snap.pst)]_vars

\* C8 amended: the position at the moment of resumption is the position the loop
\* had when playback was stopped for the mix, at the recorder's stop event; the
\* time decode and mix took is not added.
C8_ResumeWhereStopped ==
    [][IsOverdubCommit => getPlaybackPosition' = call'.task.position]_vars

\* an overdub stopped in the middle of the cycle has been committed and playback
\* has resumed
C8_Witness ==
    /\ call.op = "processOverdub"
    /\ call.ret = "mixed"
    /\ call.started
    /\ call.task.quiet
    /\ call.task.snap.playing
    /\ call.task.position = <<1, 2>>
    /\ isPlaying

PositionInRange(p) == 0 <= p[1] /\ p[1] < p[2]

\* the position p, dt later, has passed the end of a cycle of the loop
Wraps(p, dt) ==
    /\ loopDuration > 0
    /\ p[1] * loopDuration + dt * p[2] >= loopDuration * p[2]

\* C9: getPlaybackPosition() is always in [0, 1); as time advances it strictly
\* increases while the loop is playing, unless it wraps to the start of the
\* cycle, and it does not change while the loop is paused.
C9_PositionAdvances ==
    [][/\ PositionInRange(getPlaybackPosition')
       /\ (now' > now /\ isPlaying)
          => \/ RatLess(getPlaybackPosition, getPlaybackPosition')
             \/ Wraps(getPlaybackPosition, now' - now)
       /\ (now' > now /\ ~isPlaying)
          => getPlaybackPosition' = getPlaybackPosition]_vars

\* the step of a startRecording that started a recorder
IsStartRecording ==
    /\ nextDest' = nextDest + 1
    /\ call'.op = "startRecording"
    /\ call'.ret = TRUE

\* C10: a startRecording on an initialized controller starts an overdub exactly
\* when isPlaying is true at the call and a new recording otherwise, and an
\* overdub is never started without a loop buffer.
C10_OverdubIffPlaying ==
    [][IsStartRecording =>
         LET started == recorders'[mediaRecorder']
         IN /\ isRecording'
            /\ started.kind = "overdub" <=> isPlaying
            /\ started.kind = "new" <=> ~isPlaying
            /\ started.kind = "overdub" => recordedBuffer # NoBuffer]_vars

\* an overdub has just been started over a loop
C10_Witness ==
    /\ call.op = "startRecording"
    /\ call.ret = TRUE
    /\ isRecording
    /\ isPlaying
    /\ recordedBuffer # NoBuffer
    /\ recorders[mediaRecorder].kind = "overdub"
    /\ recorders[mediaRecorder].state = "recording"

\* ---------------------------------------------------------------------------
\* Claims C11 to C13: the loop across an overdub (SpecLoop)
\* ---------------------------------------------------------------------------

\* the step of a stopRecording that ends an overdub recording
IsOverdubStop ==
    /\ isRecording
    /\ call'.op = "stopRecording"
    /\ call'.ret = TRUE
    /\ call'.kind = "overdub"

\* the step in which the stop event of an overdub recorder starts the mix
IsOverdubStopEvent ==
    /\ call'.op = "recorderStopped"
    /\ \E t \in tasks' \ tasks : t.kind = "overdub" /\ t.quiet

\* the step in which processOverdubRecording finishes, however it ends
IsOverdubDone ==
    /\ call'.op = "processOverdub"
    /\ call'.task \in tasks

\* C11: a stopRecording that ends an overdub leaves loopDuration unchanged, and
\* so do the stop event that starts the mix and the end of the mix; when nothing
\* but time has passed since the stopRecording, loopDuration after the commit is
\* what it was before the stopRecording.
C11_OverdubKeepsDuration ==
    [][/\ IsOverdubStop => loopDuration' = loopDuration
       /\ IsOverdubStopEvent => loopDuration' = loopDuration
       /\ IsOverdubDone => loopDuration' = loopDuration
       /\ (IsOverdubDone /\ call'.task.quiet)
          => loopDuration' = call'.task.snap.duration]_vars

\* an overdub over a loop of 0.2 s has been stopped, mixed and committed, nothing
\* else having run in between
C11_Witness ==
    /\ call.op = "processOverdub"
    /\ call.ret = "mixed"
    /\ call.task.quiet
    /\ call.task.snap.duration = 2
    /\ loopDuration = 2
    /\ recordedBuffer = call.task.rec

\* the step in which processRecording finishes after a successful decode, the
\* recording having been captured and nothing but time having passed since the
\* stopRecording that ended it
IsQuietRecordingCommit ==
    /\ call'.op = "processRecording"
    /\ call'.task \in tasks
    /\ call'.ret = "decoded"
    /\ call'.task.quiet

\* C12: once a new recording ended by stopRecording has been captured and
\* decoded, no other operation having run, the controller holds the new buffer
\* (hasLoop), is playing, and its playback source loops the new buffer from
\* position 0.
C12_NewRecordingPlaysFromStart ==
    [][IsQuietRecordingCommit =>
         /\ getState'.hasLoop
         /\ getState'.isPlaying
         /\ recordedBuffer' = NewBuffer(call'.task)
         /\ playbackSource' = [buffer |-> NewBuffer(call'.task)]
         /\ getPlaybackPosition' = Zero
         /\ playStartTime' = <<now', 1>>]_vars

\* C13: recordedBuffer, the buffer playback sees, is never a partially mixed
\* buffer: while the mix runs it is the prior buffer, after a failed mix it still
\* is, and after the commit it is the complete mix of every overdub sample of
\* every channel.
C13_NoPartialBuffer ==
    /\ mix.pc \in {"mixing", "failed"} => mix.recordedBuffer = mix.originalBuffer
    /\ mix.pc = "committed" =>
          /\ Len(mix.recordedBuffer) =
                Max(Len(mix.originalBuffer), Len(mix.overdubBuffer))
          /\ \A c \in 1..Len(mix.recordedBuffer) :
                mix.recordedBuffer[c] =
                   ExpectedMix(LoopChannel(c), ClipChannel(c),
                               mix.overdubStartSample, mix.targetSamples)

\* the mix is under way: one of several overdub samples has been layered onto
\* mixedBuffer, which differs from the loop that is still the visible buffer
C13_Witness ==
    /\ mix.pc = "mixing"
    /\ mix.phase = "layer"
    /\ mix.i = 1
    /\ Len(mix.overdubBuffer[mix.channel]) > 1
    /\ mix.mixedBuffer[1] # mix.originalBuffer[1]
    /\ mix.recordedBuffer = mix.originalBuffer

\* ---------------------------------------------------------------------------
\* Claim C14: the parameters and the effects derived from them (SpecParams)
\* ---------------------------------------------------------------------------

\* clamp(v, 0, 1) in hundredths
ClampUnit100(v) == IF v < 0 THEN 0 ELSE IF v > 100 THEN 100 ELSE v

\* the mapping table applied to c: holds of the effect targets fx
MappingTable(fx, param, c) ==
    /\ param = "grime" => fx.drive = 20 + 2 * c /\ fx.wet = c /\ fx.dry = 100 - c
    /\ param = "flow" =>
          fx.delayTime = 500 + 45 * c /\ fx.delayLevel = 8 * c /\ fx.feedback = 85 * c
    /\ param = "shimmer" => fx.chorusLevel = 8 * c /\ fx.chorusDepth = c
    /\ param = "depth" => fx.reverbLevel = 5 * c

\* C14: after setParameter(name, v) on a synthesizer whose effect chain exists,
\* for name among grime, flow, shimmer, depth and any v, below 0 and above 1
\* included, the stored parameter is c = clamp(v, 0, 1) and every effect target
\* derived from it is the mapping table applied to c.
C14_ParameterClamped ==
    (/\ call.op = "setParameter"
     /\ call.param \in {"grime", "flow", "shimmer", "depth"}
     /\ effects.built)
    => /\ params[call.param] = ClampUnit100(call.value)
       /\ MappingTable(effects, call.param, ClampUnit100(call.value))

\* ---------------------------------------------------------------------------
\* Claims C15 and C16: positionToFrequency (SpecPitch)
\* ---------------------------------------------------------------------------

\* C15: for every x and y in [0, 1], 1 included, and every octave parameter in
\* [0, 1], positionToFrequency selects a pitch-class index within 0..4 and
\* returns a defined, strictly positive frequency.
C15_FrequencyDefined ==
    call.op = "positionToFrequency" =>
        /\ ScaleIndex(call.x) \in 0..4
        /\ call.ret.defined

\* the pitch class, octave band and quantization anchor a call selects
Combination(x, y, octaveParam) ==
    <<ScaleIndex(x), OctaveBand(y), ClosestIndex(octaveParam)>>

\* the values positionToFrequency takes over the given positions
FrequencyValues(xs, ys) ==
    {positionToFrequency(x, y, o) : x \in xs, y \in ys, o \in OctaveParams}

Below1 == {p \in Positions : p < 100}

ReachedOctaves == {0, 2, 3, 4, 5, 6, 7, 8, 10}

C17_StartVoiceReturnsVoice ==
    [][call'.op = "startVoice" =>
          /\ (call'.ret = 0) <=> ~synthInitialized
          /\ ~synthInitialized => voices' = voices
          /\ synthInitialized =>
                /\ ~call'.thrown
                /\ \E i \in 1..Len(voices') :
                      voices'[i].id = call'.ret /\ voices'[i].playing]_vars

\* the step of a startRecording that returns false (the clock and the recorders'
\* data events leave the record of the last call as it is)
IsFailedStartRecording ==
    /\ call'.op = "startRecording"
    /\ ~call'.ret
    /\ now' = now
    /\ Len(recordedChunks') <= Len(recordedChunks)

\* C18: a startRecording that returns false, because the controller is not
\* initialized or because setting up the capture throws, leaves getState()
\* (isRecording, isPlaying, hasLoop, duration, volume) as it was.
C18_FailedStartKeepsState ==
    [][IsFailedStartRecording => getState' = getState]_vars

\* the set-up of an overdub has just thrown while a loop was playing
C18_Witness ==
    /\ call.op = "startRecording"
    /\ ~call.ret
    /\ loopInitialized
    /\ call.overdub
    /\ getState.isPlaying
    /\ getState.hasLoop
    /\ ~getState.isRecording

\* the voice handed to stopVoice in this step is null or already stopped
StopsStoppedVoice ==
    /\ call'.op = "stopVoice"
    /\ IF call'.voice = 0 THEN TRUE ELSE ~voices[call'.voice].playing

\* C19: stopVoice on a voice that is already stopped, or on a null voice, changes
\* no state and schedules no further release or oscillator stop, so a second
\* stopVoice(v) adds nothing to the first.
C19_StopVoiceIdempotent ==
    [][StopsStoppedVoice => (~call'.released /\ UNCHANGED synthVars)]_vars

\* stopVoice has just been called on a stopped voice of a pool in which another
\* voice is playing
C19_Witness ==
    /\ call.op = "stopVoice"
    /\ call.voice # 0
    /\ ~call.released
    /\ ~voices[call.voice].playing
    /\ PlayingCount(voices) >= 1

\* the step of a stopRecording called while no recording is in progress
IsIdleStopRecording ==
    /\ call'.op = "stopRecording"
    /\ ~isRecording
    /\ now' = now
    /\ recordedChunks' = recordedChunks

\* C20: stopRecording may be called in every state; when no recording is in
\* progress it returns false and changes neither isRecording, isPlaying, the loop
\* buffer nor loopDuration, so a second stopRecording adds nothing to the first.
C20_StopRecordingIdempotent ==
    [][IsIdleStopRecording =>
          /\ ~call'.ret
          /\ UNCHANGED <<isRecording, isPlaying, recordedBuffer, loopDuration>>]_vars

\* stopRecording has just been refused after a recording that was stopped before
C20_Witness ==
    /\ call.op = "stopRecording"
    /\ ~call.ret
    /\ ~isRecording
    /\ mediaRecorder # NoRecorder
    /\ loopDuration # 0

\* the fields of the loop controller
LoopFields ==
    <<loopInitialized, isRecording, isPlaying, recordedBuffer, loopDuration,
      recordStartTime, playStartTime, overdubStartTime, playbackSource,
      mediaRecorder, recordedChunks, recordDestination, overdubDestination,
      connected, volume>>

\* the step of a clear() called right after a clear(), no event in between
IsSecondClear ==
    /\ call'.op = "clear"
    /\ call'.again
    /\ call.op = "clear"
    /\ recordedChunks = <<>>
    /\ recordedChunks' = <<>>
    /\ now' = now

\* C21: a clear() called immediately after a clear() returns true and leaves
\* every field of the loop controller as the first call left it.
C21_ClearIdempotent ==
    [][IsSecondClear => (call'.ret = TRUE /\ UNCHANGED LoopFields)]_vars

\* clear() has just been called a second time in a row, after two recordings had
\* been started
C21_Witness ==
    /\ call.op = "clear"
    /\ call.again
    /\ ~call.was.isRecording
    /\ ~call.was.isPlaying
    /\ ~call.was.hasLoop
    /\ nextDest > 2

\* C22: setComplexity(c) sets maxVoices to ceil(5 * c); if that is smaller than
\* before, exactly the playing voices stored at pool indices >= the new maxVoices
\* (here: > maxVoices') are stopped and the others keep their playing flag; if it
\* is not smaller, no voice is stopped.
C22_ComplexityStopsExcess ==
    [][call'.op = "setComplexity" =>
          /\ 10 * maxVoices' >= 5 * call'.c
          /\ 10 * (maxVoices' - 1) < 5 * call'.c
          /\ Len(voices') = Len(voices)
          /\ \A i \in 1..Len(voices) :
                /\ voices'[i].id = voices[i].id
                /\ voices'[i].playing =
                      IF maxVoices' < maxVoices /\ i > maxVoices'
                      THEN FALSE ELSE voices[i].playing]_vars

\* setComplexity has just shrunk the pool, stopping two voices and leaving one
\* playing below the new maxVoices
C22_Witness ==
    /\ call.op = "setComplexity"
    /\ call.stopped = 2
    /\ maxVoices >= 1
    /\ Len(voices) > maxVoices
    /\ voices[1].playing

VoiceOperations ==
    {"startVoice", "updateVoicePosition", "stopVoice", "stopAllVoices", "setComplexity"}

\* C23: startVoice, updateVoicePosition, stopVoice, stopAllVoices and
\* setComplexity leave the five parameter values and every field of the effect
\* state unchanged; of the operations on a synthesizer only setParameter changes
\* them (initialize builds the effect chain in the first place).
C23_VoicesLeaveEffects ==
    [][/\ call'.op \in VoiceOperations => UNCHANGED <<params, effects>>
       /\ <<params, effects>>' # <<params, effects>>
             => call'.op \in {"setParameter", "initialize"}]_vars

\* a voice has just been started at capacity, stealing slot 0, on a synthesizer
\* whose grime parameter has been moved to 0.4
C23_Witness ==
    /\ call.op = "startVoice"
    /\ call.ret # 0
    /\ call.stolen
    /\ effects.built
    /\ params.grime = 40
    /\ effects.wet = 40

\* the destinations recorders read from
RecordingDestinations ==
    {StreamDestination(d) : d \in connected \cup ({recordDestination, overdubDestination} \ {NoDest})}

\* C24: in every reachable state no signal path leads from the loop playback
\* source to a recording destination; a recording destination is fed by the
\* recording gain alone, and that by the synthesizer's master gain alone.
C24_NoPlaybackIntoRecording ==
    /\ ReachableFrom({Node("playbackSource")}, AudioGraph) \cap RecordingDestinations = {}
    /\ \A e \in AudioGraph :
          /\ e[2] \in RecordingDestinations => e[1] = Node("recordingGain")
          /\ e[2] = Node("recordingGain") => e[1] = Node("masterGain")

\* an overdub is being recorded while the loop plays: the playback source reaches
\* the speakers, and a voice reaches the overdub destination
C24_Witness ==
    /\ isRecording
    /\ isPlaying
    /\ overdubDestination # NoDest
    /\ Node("destination") \in ReachableFrom({Node("playbackSource")}, AudioGraph)
    /\ StreamDestination(overdubDestination)
          \in ReachableFrom({Node("voiceGain")}, AudioGraph)

\* the step is a startVoice that steals slot 0 of a pool at capacity
IsSteal ==
    /\ call'.op = "startVoice"
    /\ call'.ret # 0
    /\ call'.stolen

\* C25: a voice that has been stopped keeps its pool slot until its release has
\* completed (its oscillators have been stopped): no step removes from the pool
\* a voice whose release has not completed, except a startVoice at capacity that
\* steals the slot; so startVoice does not hand the slot of a releasing voice to
\* a new voice, and pool occupancy drops only when a release completes.
C25_SlotKeptUntilReleased ==
    [][\A i \in 1..Len(voices) :
          ~voices[i].silent =>
             \/ \E j \in 1..Len(voices') : voices'[j].id = voices[i].id
             \/ (IsSteal /\ i = 1)]_vars

\* C26: whenever isPlaying is true, the buffer of the active playback source is
\* the current recordedBuffer, however togglePlayback, startRecording and
\* stopRecording interleave with a decode or an overdub mix in flight.
C26_SourcePlaysCurrentBuffer ==
    isPlaying => playbackSource.buffer = recordedBuffer

\* C27: once clear() has returned and as long as no further control operation is
\* called, getState() stays at isRecording = false, isPlaying = false,
\* hasLoop = false, duration = 0: no recorder stop event or decode that was
\* pending at the clear installs a buffer or starts playback later.
C27_ClearedStaysCleared ==
    SinceClear =>
        /\ ~getState.isRecording
        /\ ~getState.isPlaying
        /\ ~getState.hasLoop
        /\ getState.duration = 0

\* C28: whenever a mix runs, the phase at which the overdub began,
\* (overdubStartTime - playStartTime) mod loopDuration, lies in [0, loopDuration),
\* so that overdubStartSample and the write indices lie in [0, targetSamples);
\* also when playback was stopped and restarted during the overdub.
C28_OverdubPhaseInLoop ==
    (call.op = "processOverdub" /\ call.ret = "mixed") =>
        /\ call.overdubStartInLoop[1] >= 0
        /\ RatLess(call.overdubStartInLoop, <<call.duration, 1>>)

\* C29: in every reachable state in which hasLoop is true, loopDuration lies
\* between 0.1 s and maxLoopDuration.
C29_DurationInRange ==
    getState.hasLoop =>
        /\ MinLoopDuration <= loopDuration
        /\ loopDuration <= maxLoopDuration

\* C30: right after initialize() and before any setParameter, every field of the
\* effect state is the mapping table applied to the default parameter values, so
\* that in every reachable state of an initialized synthesizer the effect state
\* is a function of the stored parameters.
C30_EffectsFollowParams ==
    synthInitialized =>
        \A p \in {"grime", "flow", "shimmer", "depth"} :
            MappingTable(effects, p, params[p])

\* C31: after updateVoicePosition(voice, x, y) on a playing voice the oscillators
\* and the filter target what startVoice sets for (x, y): the primary oscillator
\* f, the detuned one 1.01 f, the sub-octave one 0.5 f, the filter cutoff
\* 800 + 4000 y, with f = positionToFrequency(x, y); on a stopped or null voice
\* nothing is retargeted.
C31_UpdateTargetsAsStart ==
    call.op = "updateVoicePosition" =>
        IF call.moved
        THEN LET f == positionToFrequency(call.x, call.y, params.octave)
             IN /\ call.targets.set
                /\ call.targets.osc1 = <<f.semitonesFromC0, 100>>
                /\ call.targets.osc2 = <<f.semitonesFromC0, 101>>
                /\ call.targets.subOsc = <<f.semitonesFromC0, 50>>
                /\ call.targets.filter = 800 + 40 * call.y
        ELSE ~call.targets.set

\* C32: when a voice is stolen because the pool is at capacity, the evicted voice
\* (the one in slot 0) is the oldest of the voices playing at that moment: none
\* of them was started before it. Voice ids count the starts in order.
C32_StealsOldest ==
    [][IsSteal =>
          \A i \in 1..Len(voices) :
              voices[i].playing => voices[1].id <= voices[i].id]_vars

\* C33: for every y in [0, 1] the octave band floor(y * 2) that
\* positionToFrequency adds to baseOctave is 0 or 1, so that under one octave
\* setting the pitches of one pitch class lie in exactly two octaves.
C33_TwoOctaveBands ==
    call.op = "positionToFrequency" =>
        /\ OctaveBand(call.y) \in {0, 1}
        /\ Cardinality({positionToFrequency(0, y, params.octave).semitonesFromC0 :
                           y \in Positions}) = 2

\* the distance of an octave parameter from the anchor numbered a, in hundredths
AnchorDistance(octave, a) == Abs(octave - <<0, 20, 35, 50, 65, 80, 100>>[a])

\* C34: the octave quantizer maps every value in [0, 1] to the anchor of
\* {0, 0.2, 0.35, 0.5, 0.65, 0.8, 1} at minimal distance, to the earliest such
\* anchor in list order when two are equally near, and each anchor to itself, so
\* that quantizing a quantized value returns the same anchor.
C34_QuantizerNearestFirst ==
    call.op = "positionToFrequency" =>
        LET q == ClosestIndex(params.octave)
        IN /\ q \in 1..7
           /\ \A b \in 1..7 :
                 AnchorDistance(params.octave, q) <= AnchorDistance(params.octave, b)
           /\ \A b \in 1..(q - 1) :
                 AnchorDistance(params.octave, q) < AnchorDistance(params.octave, b)
           /\ \A a \in 1..7 : ClosestIndex(octaveSteps[a]) = a
           /\ ClosestIndex(octaveSteps[q]) = q
           /\ call.x < 100 =>
                 call.ret.semitonesFromC0 =
                    <<0, 2, 4, 7, 9>>[(call.x * 5) \div 100 + 1]
                    + 6 * (2 * ((call.y * 2) \div 100) + 4
                           + <<-4, -2, -1, 0, 1, 2, 4>>[q])

\* the octave parameter 0.9 is equally near to the anchors 0.8 and 1.0; a call
\* at x = 0, y = 0 has used the anchor 0.8 (one octave up: C3)
C34_Witness ==
    /\ call.op = "positionToFrequency"
    /\ params.octave = 90
    /\ AnchorDistance(90, 6) = AnchorDistance(90, 7)
    /\ call.x = 0
    /\ call.y = 0
    /\ call.ret.semitonesFromC0 = 36

\* C35: at most one recorder is capturing at any time: after any sequence of
\* startRecording, stopRecording and clear calls, startRecording while already
\* recording included, no recorder other than the one the controller refers to
\* is in the recording state.
C35_OneRecorderCapturing ==
    \A r \in 1..Len(recorders) :
        recorders[r].state = "recording" => r = mediaRecorder

\* C36: in every reachable state isPlaying = true implies hasLoop = true.
C36_PlayingHasLoop ==
    getState.isPlaying => getState.hasLoop

\* a loop is playing while an overdub is being recorded over it
C36_Witness ==
    /\ getState.isPlaying
    /\ getState.hasLoop
    /\ getState.isRecording
    /\ playbackSource # NoSource

\* C37: after clear() no recording destination, of a new recording or of any
\* earlier overdub, is still connected to the recording tap, however many
\* recordings and overdubs came before.
C37_ClearDisconnectsAll ==
    call.op = "clear" =>
        /\ connected = {}
        /\ RecordingEdges = {}

\* every sample of every channel of a buffer lies in [-1, 1]
InUnitRange(buffer) ==
    \A c \in 1..Len(buffer) : \A j \in 1..Len(buffer[c]) :
        buffer[c][j] >= -ClipLimit /\ buffer[c][j] <= ClipLimit

\* the indices (1-based) of channel c that the overdub loop writes
WrittenByOverdub(c) ==
    IF c > Len(mix.overdubBuffer) THEN {}
    ELSE {JSRemInt(mix.overdubStartSample + i, mix.targetSamples) + 1 :
              i \in 0..(Len(mix.overdubBuffer[c]) - 1)}

\* C38: when the captured samples (the loop that was recorded and the overdub
\* clip) lie in [-1, 1], every sample of the loop buffer after the overdub lies
\* in [-1, 1], and a sample at an index the overdub did not write equals the
\* sample of the previous loop buffer at that channel and index.  The loop
\* the mix starts from is any loop in [-1, 1], so the property carries over
\* any number of overdubs.
C38_OverdubKeepsRangeAndRest ==
    (mix.pc = "mixed" /\ InUnitRange(mix.originalBuffer) /\ InUnitRange(mix.overdubBuffer)) =>
        /\ InUnitRange(mix.recordedBuffer)
        /\ \A c \in 1..Len(mix.recordedBuffer) :
              /\ Len(mix.recordedBuffer[c]) = mix.targetSamples
              /\ \A j \in (1..mix.targetSamples) \ WrittenByOverdub(c) :
                    (c <= Len(mix.originalBuffer) /\ j <= Len(mix.originalBuffer[c])) =>
                        mix.recordedBuffer[c][j] = mix.originalBuffer[c][j]

\* a one-sample overdub at full scale lands on a loud sample of a three-sample
\* loop: that sample is clipped to 1.0 and the two other samples are the loop's
C38_Witness ==
    /\ mix.pc = "mixed"
    /\ InUnitRange(mix.overdubBuffer)
    /\ mix.targetSamples = 3
    /\ Len(mix.originalBuffer[1]) = 3
    /\ mix.overdubBuffer[1] = <<10>>
    /\ mix.overdubStartSample = 1
    /\ mix.originalBuffer[1] = <<-10, 7, 7>>
    /\ mix.recordedBuffer[1] = <<-10, 10, 7>>
    /\ WrittenByOverdub(1) = {2}

\* a step that is a call of togglePlayback(): the clock and the chunks, which
\* the steps that leave the last call in place change, stand still
IsTogglePlayback ==
    /\ call'.op = "togglePlayback"
    /\ now' = now
    /\ recordedChunks' = recordedChunks
    /\ tasks' = DisturbedTasks(tasks)

\* C39: togglePlayback() pauses a playing loop, starts looped playback at
\* position 0 when a loop exists and is not playing, and returns false and
\* changes nothing when there is no loop; in all three cases isRecording,
\* loopDuration and the loop buffer stay as they were.
C39_TogglePlayback ==
    [][IsTogglePlayback =>
        /\ UNCHANGED <<isRecording, loopDuration, recordedBuffer>>
        /\ IF isPlaying
           THEN /\ call'.ret = TRUE
                /\ ~isPlaying'
                /\ playbackSource' = NoSource
           ELSE IF recordedBuffer # NoBuffer
           THEN /\ call'.ret = TRUE
                /\ isPlaying'
                /\ playbackSource' = [buffer |-> recordedBuffer]
                /\ playStartTime' = <<now, 1>>
           ELSE /\ call'.ret = FALSE
                /\ UNCHANGED <<isPlaying, playbackSource, playStartTime,
                               recordStartTime, overdubStartTime, mediaRecorder,
                               recordDestination, overdubDestination, connected,
                               volume, synthVars>>]_vars

\* togglePlayback() has just started a recorded loop from its beginning, some
\* time after the controller was set up
C39_Witness ==
    /\ call.op = "togglePlayback"
    /\ call.ret = TRUE
    /\ isPlaying
    /\ recordedBuffer # NoBuffer
    /\ playbackSource = [buffer |-> recordedBuffer]
    /\ playStartTime = <<now, 1>>
    /\ now >= 2
    /\ ~isRecording

====
